---- MODULE Spec2Model ----
(***************************************************************************)
(* Model of the name-matching engine of streamed_freee_csvCheck            *)
(* (src/utils/name_matcher.py, class NameMatcher).                         *)
(*                                                                         *)
(* Text is a sequence of characters.  An ASCII character stands for        *)
(* itself ("H", "-", "/", "(").  A character outside ASCII is written by   *)
(* a name, and is still ONE character of the text:                         *)
(*   "MULT_SIGN"  U+00D7   "MIDDLE_DOT"  U+30FB   "IDEO_SPACE"  U+3000     *)
(*   "FW_SOLIDUS" U+FF0F   "FW_LPAREN"   U+FF08   "FW_RPAREN"   U+FF09     *)
(*   "FW_H" U+FF28  "FW_D" U+FF24  (full-width Latin capitals)             *)
(*   "PAREN_KABU" U+3231   "PAREN_YUU"   U+3232   (parenthesized kanji)    *)
(*   "KABU" "SHIKI" "KAI" "SHA" "YUU" "GEN" "GOU" "MEI" "SHI" "DOU"        *)
(*        the kanji of the legal forms  (kabu-shiki-kai-sha, ...)          *)
(*   "KATA_TE" "KATA_SU" katakana, "HIRA_TE" "HIRA_SU" hiragana,           *)
(*   "HW_KATA_TE" U+FF83 half-width katakana.                              *)
(* None and NaN (the missing values the callers pass) are the two          *)
(* one-element sequences NoneValue and NaNValue.                           *)
(*                                                                         *)
(* Scores are Python floats in the source; the model keeps them as exact   *)
(* fractions [num, den] in lowest terms.                                   *)
(***************************************************************************)
EXTENDS Integers, Sequences, FiniteSets, TLC

VARIABLES
    ngram_weight,   \* self.ngram_weight
    prefix_weight,  \* self.prefix_weight
    edit_weight,    \* self.edit_weight
    pc,             \* "idle": no call in progress; "returned": a call has returned
    call,           \* the method called last and its arguments
    ret,            \* what that call returned
    called,         \* the sub-scorers, or the find_candidates calls, that call ran
    args_after,     \* the lists and frames passed to that call, as it left them
    session_state   \* st.session_state of the app's one browser session

vars == <<ngram_weight, prefix_weight, edit_weight, pc, call, ret, called,
          args_after, session_state>>

weights == <<ngram_weight, prefix_weight, edit_weight>>

(***************************************************************************)
(* Bounds of the model.                                                    *)
(***************************************************************************)
\* longest text, in pieces, handed to normalize
MaxPieces == 3
\* longest text handed to a sub-scorer directly
MaxScoreLen == 3
\* largest n handed to ngram_similarity
MaxGram == 3
\* longest text, in pieces, handed to calculate_similarity
MaxSimPieces == 2
\* longest candidate list handed to find_candidates
MaxCands == 3
\* largest top_n handed to find_candidates
MaxTopN == 4
\* most rows of a STREAMED frame handed to match_names
MaxRows == 2

(***************************************************************************)
(* Fractions.                                                              *)
(***************************************************************************)
RECURSIVE GCD(_, _)
GCD(a, b) == IF b = 0 THEN a ELSE GCD(b, a % b)

Abs(n) == IF n < 0 THEN -n ELSE n

\* what a division by zero raises, carried as the fraction 0/0: whatever is
\* computed from it is 0/0 again
ZeroDivisionError == [num |-> 0, den |-> 0]

\* the quotient n / d in lowest terms
Rat(n, d) ==
    IF d = 0 THEN ZeroDivisionError
    ELSE LET g == GCD(Abs(n), d)
         IN  [num |-> n \div g, den |-> d \div g]

RatAdd(x, y) == Rat(x.num * y.den + y.num * x.den, x.den * y.den)
RatMul(x, y) == Rat(x.num * y.num, x.den * y.den)
RatSub(x, y) == Rat(x.num * y.den - y.num * x.den, x.den * y.den)
RatLeq(x, y) == x.num * y.den <= y.num * x.den
RatLt(x, y) == x.num * y.den < y.num * x.den

Zero == Rat(0, 1)
One == Rat(1, 1)

(***************************************************************************)
(* Sequences.                                                              *)
(***************************************************************************)
SeqsUpTo(S, n) == UNION {[1..k -> S] : k \in 0..n}

RECURSIVE Flatten(_)
Flatten(ss) == IF ss = <<>> THEN <<>> ELSE Head(ss) \o Flatten(Tail(ss))

Min(a, b) == IF a <= b THEN a ELSE b
Max(a, b) == IF a >= b THEN a ELSE b

(***************************************************************************)
(* Missing values.                                                         *)
(***************************************************************************)
NoneValue == <<"None">>
NaNValue == <<"nan">>

\* pd.isna(x)
isna(x) == x = NoneValue \/ x = NaNValue

\* Python's truth value of a str or None
Truthy(x) == x # <<>> /\ x # NoneValue

(***************************************************************************)
(* Character conversions.                                                  *)
(***************************************************************************)
UpperLetters ==
    <<"A", "B", "C", "D", "E", "F", "G", "H", "I", "J", "K", "L", "M",
      "N", "O", "P", "Q", "R", "S", "T", "U", "V", "W", "X", "Y", "Z">>

LowerLetters ==
    <<"a", "b", "c", "d", "e", "f", "g", "h", "i", "j", "k", "l", "m",
      "n", "o", "p", "q", "r", "s", "t", "u", "v", "w", "x", "y", "z">>

\* the lower-case letter of each upper-case letter
LowerOf ==
    [c \in {UpperLetters[i] : i \in 1..Len(UpperLetters)} |->
        LowerLetters[CHOOSE i \in 1..Len(UpperLetters) : UpperLetters[i] = c]]

\* str.lower() on one character
LowerChar(c) == IF c \in DOMAIN LowerOf THEN LowerOf[c] ELSE c

\* unicodedata.normalize('NFKC', c) for one character: a compatibility
\* character becomes its (possibly longer) canonical text
NFKCChar(c) ==
    CASE c = "PAREN_KABU" -> <<"(", "KABU", ")">>
      [] c = "PAREN_YUU" -> <<"(", "YUU", ")">>
      [] c = "FW_LPAREN" -> <<"(">>
      [] c = "FW_RPAREN" -> <<")">>
      [] c = "FW_SOLIDUS" -> <<"/">>
      [] c = "IDEO_SPACE" -> <<" ">>
      [] c = "FW_H" -> <<"H">>
      [] c = "FW_D" -> <<"D">>
      [] c = "HW_KATA_TE" -> <<"KATA_TE">>
      [] OTHER -> <<c>>

\* jaconv.z2h(kana=False, digit=True, ascii=True) for one character
Z2HChar(c) ==
    CASE c = "FW_LPAREN" -> "("
      [] c = "FW_RPAREN" -> ")"
      [] c = "FW_SOLIDUS" -> "/"
      [] c = "IDEO_SPACE" -> " "
      [] c = "FW_H" -> "H"
      [] c = "FW_D" -> "D"
      [] OTHER -> c

\* jaconv.kata2hira for one character
Kata2HiraChar(c) ==
    CASE c = "KATA_TE" -> "HIRA_TE"
      [] c = "KATA_SU" -> "HIRA_SU"
      [] OTHER -> c

RECURSIVE nfkc(_)
nfkc(s) == IF s = <<>> THEN <<>> ELSE NFKCChar(Head(s)) \o nfkc(Tail(s))

z2h(s) == [i \in 1..Len(s) |-> Z2HChar(s[i])]
kata2hira(s) == [i \in 1..Len(s) |-> Kata2HiraChar(s[i])]
lower(s) == [i \in 1..Len(s) |-> LowerChar(s[i])]

(***************************************************************************)
(* Regular expressions: a pattern is a sequence of atoms, an atom a        *)
(* character class with a quantifier ("one", "opt" for ?, "star" for * ).  *)
(***************************************************************************)
\* An atom keeps its class as written (cls) and, for re.IGNORECASE, in
\* lower case (fold).
Atom(cls, q) == [cls |-> cls, fold |-> {LowerChar(p) : p \in cls}, q |-> q]

Lit(chars) == [i \in 1..Len(chars) |-> Atom({chars[i]}, "one")]
Opt(cls) == <<Atom(cls, "opt")>>
Star(cls) == <<Atom(cls, "star")>>

\* what \s matches and str.strip() strips
Whitespace == {" ", "TAB", "IDEO_SPACE"}

\* re.IGNORECASE: a character matches an atom when it equals a member of
\* its class up to letter case
CharMatches(a, c) == LowerChar(c) \in a.fold

\* The end (the index after the last character) of the greedy match of
\* atoms k.. of pat at index i of s, 0 when there is none.
RECURSIVE MatchEnd(_, _, _, _)
MatchEnd(pat, k, s, i) ==
    IF k > Len(pat) THEN i
    ELSE LET a == pat[k]
             hit == i <= Len(s) /\ CharMatches(a, s[i])
             skip == MatchEnd(pat, k + 1, s, i)
         IN  CASE a.q = "one" ->
                    IF hit THEN MatchEnd(pat, k + 1, s, i + 1) ELSE 0
               [] a.q = "opt" ->
                    IF hit
                    THEN LET r == MatchEnd(pat, k + 1, s, i + 1)
                         IN  IF r # 0 THEN r ELSE skip
                    ELSE skip
               [] a.q = "star" ->
                    IF hit
                    THEN LET r == MatchEnd(pat, k, s, i + 1)
                         IN  IF r # 0 THEN r ELSE skip
                    ELSE skip

\* re.sub(pat, '', s, flags=re.IGNORECASE) from index i on: leftmost
\* matches, none overlapping, each removed
RECURSIVE SubFrom(_, _, _)
SubFrom(pat, s, i) ==
    IF i > Len(s) THEN <<>>
    ELSE LET e == MatchEnd(pat, 1, s, i)
         IN  IF e # 0 THEN SubFrom(pat, s, e)
             ELSE <<s[i]>> \o SubFrom(pat, s, i + 1)

re_sub(pat, s) == SubFrom(pat, s, 1)

(***************************************************************************)
(* NameMatcher: class constants.                                           *)
(***************************************************************************)
LEGAL_PATTERNS ==
    << Lit(<<"KABU", "SHIKI", "KAI", "SHA">>),
       Lit(<<"(", "KABU", ")">>),
       Lit(<<"PAREN_KABU">>),
       Lit(<<"YUU", "GEN", "KAI", "SHA">>),
       Lit(<<"(", "YUU", ")">>),
       Lit(<<"PAREN_YUU">>),
       Lit(<<"GOU", "MEI", "KAI", "SHA">>),
       Lit(<<"GOU", "SHI", "KAI", "SHA">>),
       Lit(<<"GOU", "DOU", "KAI", "SHA">>),
       Lit(<<"L", "L", "C">>),
       Lit(<<"C", "o", ".">>) \o Opt({","}) \o Star(Whitespace)
           \o Lit(<<"L", "t", "d">>) \o Opt({"."}),
       Lit(<<"H", "o", "l", "d", "i", "n", "g">>) \o Opt({"s"}),
       Lit(<<"H", "D">>),
       Lit(<<"C", "o", "r", "p", "o", "r", "a", "t", "i", "o", "n">>),
       Lit(<<"C", "o", "r", "p">>) \o Opt({"."}),
       Lit(<<"I", "n", "c">>) \o Opt({"."}),
       Lit(<<"L", "i", "m", "i", "t", "e", "d">>),
       Lit(<<"L", "t", "d">>) \o Opt({"."}) >>

\* the character class [×・／\-\s\.\,\(\)（）]
REMOVE_SYMBOLS ==
    {"MULT_SIGN", "MIDDLE_DOT", "FW_SOLIDUS", "-", ".", ",", "(", ")",
     "FW_LPAREN", "FW_RPAREN"} \cup Whitespace

(***************************************************************************)
(* NameMatcher.normalize                                                   *)
(***************************************************************************)
\* for pattern in self.LEGAL_PATTERNS: normalized = re.sub(pattern, '', ...)
RECURSIVE RemoveLegal(_, _)
RemoveLegal(s, k) ==
    IF k > Len(LEGAL_PATTERNS) THEN s
    ELSE RemoveLegal(re_sub(LEGAL_PATTERNS[k], s), k + 1)

\* re.sub(self.REMOVE_SYMBOLS, '', normalized): the class is matched
\* without re.IGNORECASE
RemoveSymbols(s) == SelectSeq(s, LAMBDA c : c \notin REMOVE_SYMBOLS)

\* str.lstrip(chars)
RECURSIVE lstrip(_, _)
lstrip(s, chars) ==
    IF s # <<>> /\ Head(s) \in chars THEN lstrip(Tail(s), chars) ELSE s

\* str.rstrip(chars)
RECURSIVE rstrip(_, _)
rstrip(s, chars) ==
    IF s # <<>> /\ s[Len(s)] \in chars
    THEN rstrip(SubSeq(s, 1, Len(s) - 1), chars)
    ELSE s

\* str.strip()
strip(s) == rstrip(lstrip(s, Whitespace), Whitespace)

\* normalize(text): the pair (normalized, original)
normalize(text) ==
    IF ~Truthy(text) \/ isna(text) THEN <<<<>>, text>>
    ELSE LET original == text
             n1 == nfkc(original)
             n2 == z2h(n1)
             n3 == kata2hira(n2)
             n4 == lower(n3)
             n5 == RemoveLegal(n4, 1)
             n6 == RemoveSymbols(n5)
             n7 == lstrip(n6, {"MULT_SIGN"})
             n8 == strip(n7)
         IN  <<n8, original>>

(***************************************************************************)
(* NameMatcher.ngram_similarity                                            *)
(***************************************************************************)
\* create_ngrams without its branch for a text shorter than n
create_ngrams_noshort(text, n) ==
    {SubSeq(text, i, i + n - 1) : i \in 1..(Len(text) - n + 1)}

\* create_ngrams(text, n)
create_ngrams(text, n) ==
    IF Len(text) < n THEN {text}
    ELSE {SubSeq(text, i, i + n - 1) : i \in 1..(Len(text) - n + 1)}

ngram_similarity(text1, text2, n) ==
    IF ~Truthy(text1) \/ ~Truthy(text2) THEN Zero
    ELSE LET ngrams1 == create_ngrams(text1, n)
             ngrams2 == create_ngrams(text2, n)
             intersection == Cardinality(ngrams1 \cap ngrams2)
             union == Cardinality(ngrams1 \cup ngrams2)
         IN  IF union = 0 THEN Zero ELSE Rat(intersection, union)

(***************************************************************************)
(* NameMatcher.prefix_match_score                                          *)
(***************************************************************************)
\* the loop over zip(text1, text2) without its break: counts every pair
\* of equal characters
RECURSIVE MatchCountFrom_nobreak(_, _, _)
MatchCountFrom_nobreak(text1, text2, i) ==
    IF i > Len(text1) \/ i > Len(text2) THEN 0
    ELSE (IF text1[i] = text2[i] THEN 1 ELSE 0)
             + MatchCountFrom_nobreak(text1, text2, i + 1)

\* the loop over zip(text1, text2) from pair i on: counts the pairs of
\* equal characters up to the first unequal pair
RECURSIVE MatchCountFrom(_, _, _)
MatchCountFrom(text1, text2, i) ==
    IF i > Len(text1) \/ i > Len(text2) THEN 0
    ELSE IF text1[i] = text2[i] THEN 1 + MatchCountFrom(text1, text2, i + 1)
    ELSE 0

prefix_match_score(text1, text2) ==
    IF ~Truthy(text1) \/ ~Truthy(text2) THEN Zero
    ELSE LET min_len == Min(Len(text1), Len(text2))
             match_count == MatchCountFrom(text1, text2, 1)
         IN  IF min_len = 0 THEN Zero ELSE Rat(match_count, min_len)

(***************************************************************************)
(* NameMatcher.edit_distance_score                                         *)
(***************************************************************************)
\* The row of the edit-distance table for one more character ch of the
\* first text, from the row prev before it; cur holds the columns done.
RECURSIVE LevRow(_, _, _, _)
LevRow(prev, ch, b, cur) ==
    IF Len(cur) = Len(b) + 1 THEN cur
    ELSE LET j == Len(cur)
             cost == IF ch = b[j] THEN 0 ELSE 1
         IN  LevRow(prev, ch, b,
                    Append(cur, Min(Min(prev[j + 1] + 1, cur[j] + 1),
                                    prev[j] + cost)))

RECURSIVE LevRows(_, _, _, _)
LevRows(a, b, i, prev) ==
    IF i > Len(a) THEN prev
    ELSE LevRows(a, b, i + 1, LevRow(prev, a[i], b, <<prev[1] + 1>>))

\* Levenshtein.distance(a, b): the least number of single-character
\* insertions, deletions and substitutions that turn a into b
levenshtein_distance(a, b) ==
    LevRows(a, b, 1, [j \in 1..(Len(b) + 1) |-> j - 1])[Len(b) + 1]

\* edit_distance_score dividing by the length of the shorter text
edit_distance_score_min_len(text1, text2) ==
    IF ~Truthy(text1) \/ ~Truthy(text2) THEN Zero
    ELSE LET min_len == Min(Len(text1), Len(text2))
             dist == levenshtein_distance(text1, text2)
         IN  IF min_len = 0 THEN One
             ELSE RatSub(One, Rat(dist, min_len))

\* edit_distance_score without its two tests for empty texts
edit_distance_score_noguard(text1, text2) ==
    RatSub(One, Rat(levenshtein_distance(text1, text2),
                    Max(Len(text1), Len(text2))))

edit_distance_score(text1, text2) ==
    IF ~Truthy(text1) \/ ~Truthy(text2) THEN Zero
    ELSE LET max_len == Max(Len(text1), Len(text2))
             dist == levenshtein_distance(text1, text2)
         IN  IF max_len = 0 THEN One
             ELSE RatSub(One, Rat(dist, max_len))

(***************************************************************************)
(* NameMatcher.calculate_similarity                                        *)
(***************************************************************************)
SubScorers == {"ngram_similarity", "prefix_match_score", "edit_distance_score"}

\* the part of calculate_similarity behind the exact-match test
scored_run(norm1, norm2) ==
    LET ngram_score == ngram_similarity(norm1, norm2, 2)
        prefix_score == prefix_match_score(norm1, norm2)
        edit_score == edit_distance_score(norm1, norm2)
        final_score ==
            RatAdd(RatAdd(RatMul(ngram_weight, ngram_score),
                          RatMul(prefix_weight, prefix_score)),
                   RatMul(edit_weight, edit_score))
    IN  [result |-> [score |-> final_score,
                     ngram_score |-> ngram_score,
                     prefix_score |-> prefix_score,
                     edit_score |-> edit_score,
                     normalized1 |-> norm1, normalized2 |-> norm2],
         ran |-> SubScorers]

\* the exact-match result
exact_run(norm1, norm2) ==
    [result |-> [score |-> One, ngram_score |-> One,
                 prefix_score |-> One, edit_score |-> One,
                 normalized1 |-> norm1, normalized2 |-> norm2],
     ran |-> {}]

\* calculate_similarity without the exact-match test
similarity_run_noshort(text1, text2) ==
    scored_run(normalize(text1)[1], normalize(text2)[1])

\* calculate_similarity with the exact-match test on the texts as given
similarity_run_raw_equal(text1, text2) ==
    LET norm1 == normalize(text1)[1]
        norm2 == normalize(text2)[1]
    IN  IF text1 = text2 THEN exact_run(norm1, norm2)
        ELSE scored_run(norm1, norm2)

\* One run of calculate_similarity: the dict it returns (result) and the
\* sub-scorers it ran on the way (ran).  ngram_similarity is called with
\* its default n=2.
similarity_run(text1, text2) ==
    LET norm1 == normalize(text1)[1]
        norm2 == normalize(text2)[1]
    IN  IF norm1 = norm2 THEN exact_run(norm1, norm2)
        ELSE scored_run(norm1, norm2)

calculate_similarity(text1, text2) == similarity_run(text1, text2).result

(***************************************************************************)
(* NameMatcher.find_candidates                                             *)
(***************************************************************************)
\* the loop keeping only the candidates whose score exceeds the threshold
RECURSIVE CollectFrom_strict(_, _, _, _, _)
CollectFrom_strict(target, candidates, threshold, i, results) ==
    IF i > Len(candidates) THEN results
    ELSE LET candidate == candidates[i]
             similarity == calculate_similarity(target, candidate)
         IN  CollectFrom_strict(target, candidates, threshold, i + 1,
                 IF RatLt(threshold, similarity.score)
                 THEN Append(results, [candidate |-> candidate,
                                       score |-> similarity.score,
                                       details |-> similarity])
                 ELSE results)

\* the body of the loop for one candidate and its similarity: the entry
\* appended when the score reaches the threshold
Collected(results, candidate, similarity, threshold) ==
    IF RatLeq(threshold, similarity.score)
    THEN Append(results, [candidate |-> candidate,
                          score |-> similarity.score,
                          details |-> similarity])
    ELSE results

\* the loop over candidates from index i on
RECURSIVE CollectFrom(_, _, _, _, _)
CollectFrom(target, candidates, threshold, i, results) ==
    IF i > Len(candidates) THEN results
    ELSE CollectFrom(target, candidates, threshold, i + 1,
             Collected(results, candidates[i],
                       calculate_similarity(target, candidates[i]),
                       threshold))

\* x put in front of the entries of its own score
RECURSIVE InsertDesc_unstable(_, _)
InsertDesc_unstable(sorted, x) ==
    IF sorted = <<>> THEN <<x>>
    ELSE IF RatLeq(Head(sorted).score, x.score) THEN <<x>> \o sorted
    ELSE <<Head(sorted)>> \o InsertDesc_unstable(Tail(sorted), x)

\* x put into a list sorted by descending score, behind every entry whose
\* score is at least x's
RECURSIVE InsertDesc(_, _)
InsertDesc(sorted, x) ==
    IF sorted = <<>> THEN <<x>>
    ELSE IF RatLt(Head(sorted).score, x.score) THEN <<x>> \o sorted
    ELSE <<Head(sorted)>> \o InsertDesc(Tail(sorted), x)

\* results.sort(key=lambda x: x['score'], reverse=True): list.sort is
\* stable, and stays so under reverse=True
RECURSIVE SortFrom(_, _, _)
SortFrom(results, i, sorted) ==
    IF i > Len(results) THEN sorted
    ELSE SortFrom(results, i + 1, InsertDesc(sorted, results[i]))

\* the results left in the order of the candidate list
sort_by_score_desc_unsorted(results) == results

sort_by_score_desc(results) == SortFrom(results, 1, <<>>)

\* the slice left out
SliceTo_all(seq, n) == seq

\* the slice seq[:n]
SliceTo(seq, n) ==
    IF n >= 0 THEN SubSeq(seq, 1, Min(n, Len(seq)))
    ELSE SubSeq(seq, 1, Max(0, Len(seq) + n))

find_candidates(target, candidates, top_n, threshold) ==
    LET results == CollectFrom(target, candidates, threshold, 1, <<>>)
    IN  SliceTo(sort_by_score_desc(results), top_n)

\* the candidate list sorted in place, names that score higher first
candidates_after_find_sorted(target, candidates, top_n, threshold) ==
    LET ranked == sort_by_score_desc(CollectFrom(target, candidates, Zero, 1,
                                                 <<>>))
    IN  [k \in 1..Len(ranked) |-> ranked[k].candidate]

\* the list object passed as candidates, as find_candidates leaves it: the
\* loop only reads it, and results is a list of its own that is sorted and
\* sliced
candidates_after_find(target, candidates, top_n, threshold) == candidates

(***************************************************************************)
(* Data frames (pandas.DataFrame): a frame is the sequence of its rows, a   *)
(* row a function from column names to cell values; a blank cell read      *)
(* from a file is NaNValue, '' is <<>>.  The columns are written           *)
(*   "debit_partner" "credit_partner"   the STREAMED partner columns       *)
(*   "debit_dept" "credit_dept"         the department columns             *)
(*   "voucher"                          the voucher number                 *)
(*   "source_partner" "source_dept"     the STREAMED-source-name columns   *)
(*   "partner_cand1".."partner_cand3"   the freee partner candidates 1..3  *)
(*   "dept_cand1".."dept_cand3"         the freee department candidates    *)
(*   "_partner_exact" "_dept_exact"     the exact-match flags              *)
(*   "debit_partner_name" "credit_partner_name"  the freee partner names   *)
(***************************************************************************)
\* df.columns
Columns(df) == IF df = <<>> THEN {} ELSE DOMAIN df[1]

\* row.get(col, '')
Get(row, col) == IF col \in DOMAIN row THEN row[col] ELSE <<>>

\* row with v in its cell of column col, a new column if it has none
SetCell(row, col, v) == (col :> v) @@ row

\* df.at[idx, col] = v
At(df, idx, col, v) == [df EXCEPT ![idx] = SetCell(@, col, v)]

\* df[col] = v for each column col of the record cells
AddColumns(df, cells) == [i \in 1..Len(df) |-> cells @@ df[i]]

\* x in list
Contains(list, x) == \E k \in 1..Len(list) : list[k] = x

\* pd.notna(x) and x != ''
HasValue(x) == ~isna(x) /\ x # <<>>

(***************************************************************************)
(* CSVProcessor.extract_master_data                                        *)
(***************************************************************************)
\* ord(c) of the characters of the names, for the order sorted() uses
CodePoint(c) ==
    CASE c = "HIRA_SU" -> 12377
      [] c = "HIRA_TE" -> 12390
      [] c = "KATA_SU" -> 12473
      [] c = "KATA_TE" -> 12486
      [] c = "PAREN_KABU" -> 12849
      [] c = "HW_KATA_TE" -> 65411
      [] OTHER -> 0

\* a < b for two str
RECURSIVE StrLess(_, _)
StrLess(a, b) ==
    IF a = <<>> THEN b # <<>>
    ELSE IF b = <<>> THEN FALSE
    ELSE IF Head(a) = Head(b) THEN StrLess(Tail(a), Tail(b))
    ELSE CodePoint(Head(a)) < CodePoint(Head(b))

\* sorted(list(names))
RECURSIVE sorted(_)
sorted(names) ==
    IF names = {} THEN <<>>
    ELSE LET least == CHOOSE x \in names :
                          \A y \in names \ {x} : StrLess(x, y)
         IN  <<least>> \o sorted(names \ {least})

\* df[col]
Column(df, col) == [i \in 1..Len(df) |-> df[i][col]]

\* the series with its missing values left in
dropna_none(series) == series

\* series.dropna()
dropna(series) == SelectSeq(series, LAMBDA v : ~isna(v))

\* series.unique(), taken into a set
unique(series) == {series[i] : i \in 1..Len(series)}

\* pd.concat(frames, ignore_index=True): the rows of all frames over the
\* union of their columns, NaN where a frame lacks a column
concat(frames) ==
    LET columns == UNION {Columns(frames[k]) : k \in 1..Len(frames)}
        rows == Flatten(frames)
    IN  [i \in 1..Len(rows) |->
            [col \in columns |-> IF col \in DOMAIN rows[i] THEN rows[i][col]
                                 ELSE NaNValue]]

\* the names of columns cols of combined_df, those that are present
NamesOf(combined_df, cols) ==
    UNION { unique(dropna(Column(combined_df, col)))
            : col \in cols \cap Columns(combined_df) }

extract_master_data(freee_dfs) ==
    IF freee_dfs = <<>> THEN [partners |-> <<>>, departments |-> <<>>]
    ELSE LET combined_df == IF Len(freee_dfs) = 1 THEN freee_dfs[1]
                            ELSE concat(freee_dfs)
             partners ==
                 NamesOf(combined_df,
                         {"debit_partner_name", "credit_partner_name"})
             departments ==
                 NamesOf(combined_df, {"debit_dept", "credit_dept"})
         IN  [partners |-> sorted(partners),
              departments |-> sorted(departments)]

(***************************************************************************)
(* CSVProcessor.generate_voucher_numbers.  A number written into a string  *)
(* (strftime, an f-string) is the text of its decimal digits.              *)
(***************************************************************************)
Digits == <<"0", "1", "2", "3", "4", "5", "6", "7", "8", "9">>

\* str(n) of an integer n >= 0
RECURSIVE Decimal(_)
Decimal(n) ==
    IF n < 10 THEN <<Digits[n + 1]>>
    ELSE Decimal(n \div 10) \o <<Digits[(n % 10) + 1]>>

\* the zero-padded formats (%m, 03d): zeros in front up to the width, a
\* longer numeral left as it is
RECURSIVE ZeroPad(_, _)
ZeroPad(numeral, width) ==
    IF Len(numeral) >= width THEN numeral
    ELSE ZeroPad(<<"0">> \o numeral, width)

\* now.strftime('%m%d%H%M')
strftime_mdHM(now) ==
    ZeroPad(Decimal(now.month), 2) \o ZeroPad(Decimal(now.day), 2)
        \o ZeroPad(Decimal(now.hour), 2) \o ZeroPad(Decimal(now.minute), 2)

\* series.unique() as the array it is: the values in order of their first
\* appearance
unique_in_order(series) ==
    LET firsts == SelectSeq([i \in 1..Len(series) |-> i],
                            LAMBDA i : \A j \in 1..(i - 1) :
                                          series[j] # series[i])
    IN  [k \in 1..Len(firsts) |-> series[firsts[k]]]

\* f"{prefix}{idx:03d}"
new_number(prefix, idx) == prefix \o ZeroPad(Decimal(idx), 3)

\* voucher_map after the loop over enumerate(unique_vouchers, 1)
voucher_map_of(unique_vouchers, prefix) ==
    [old_voucher \in {unique_vouchers[k] : k \in 1..Len(unique_vouchers)} |->
        new_number(prefix,
                   CHOOSE idx \in 1..Len(unique_vouchers) :
                       unique_vouchers[idx] = old_voucher)]

\* df['voucher'] = df['voucher'].map(voucher_map)
MapVouchers(df, voucher_map) ==
    [i \in 1..Len(df) |->
        SetCell(df[i], "voucher", voucher_map[df[i]["voucher"]])]

\* generate_voucher_numbers(df), now the value of datetime.now()
generate_voucher_numbers(df, now) ==
    MapVouchers(df, voucher_map_of(unique_in_order(Column(df, "voucher")),
                                   strftime_mdHM(now)))

(***************************************************************************)
(* CSVProcessor._match_partners_unified / _match_departments_unified: the  *)
(* two methods are the same code over the columns of c.                    *)
(***************************************************************************)
PartnerColumns ==
    [debit |-> "debit_partner", credit |-> "credit_partner",
     source |-> "source_partner",
     cands |-> <<"partner_cand1", "partner_cand2", "partner_cand3">>,
     exact |-> "_partner_exact"]

DepartmentColumns ==
    [debit |-> "debit_dept", credit |-> "credit_dept",
     source |-> "source_dept",
     cands |-> <<"dept_cand1", "dept_cand2", "dept_cand3">>,
     exact |-> "_dept_exact"]

\* the result columns as they are initialised: '' in the source-name
\* column and the candidate columns, False in the flag column
InitResultColumns(df, c) ==
    AddColumns(df, [col \in {c.source} \cup {c.cands[i] : i \in 1..Len(c.cands)}
                       |-> <<>>]
                   @@ (c.exact :> FALSE))

\* for i, result in enumerate(results, 0): the candidates stored one
\* column too early, the first one lost
RECURSIVE StoreResults_from0(_, _, _, _, _)
StoreResults_from0(df, idx, cands, results, i) ==
    IF i > Len(results) THEN df
    ELSE StoreResults_from0(
             IF i = 1 THEN df
             ELSE At(df, idx, cands[i - 1], results[i].candidate),
             idx, cands, results, i + 1)

\* for i, result in enumerate(results[:3], 1):
\*     df.at[idx, candidate column i] = result['candidate']
RECURSIVE StoreResults(_, _, _, _, _)
StoreResults(df, idx, cands, results, i) ==
    IF i > Len(results) THEN df
    ELSE StoreResults(At(df, idx, cands[i], results[i].candidate),
                      idx, cands, results, i + 1)

\* the exact-match test taken as always false
IsExactMatch_never(partner, candidates) == FALSE

\* partner in candidates
IsExactMatch(partner, candidates) == Contains(candidates, partner)

\* the name a row is matched by: the credit side's when it has a value,
\* else the debit side's
RowPartner(row, c) ==
    IF HasValue(Get(row, c.credit)) THEN Get(row, c.credit)
    ELSE Get(row, c.debit)

RECURSIVE MatchRowsFrom(_, _, _, _, _)

\* the loop body for row idx, whose name is partner, and then the rows
\* after it
MatchRow(df, candidates, c, idx, invoked, partner) ==
    IF isna(partner) \/ partner = <<>>
    THEN MatchRowsFrom(df, candidates, c, idx + 1, invoked)
    ELSE IF IsExactMatch(partner, candidates)
    THEN MatchRowsFrom(At(At(df, idx, c.source, partner), idx, c.exact, TRUE),
                       candidates, c, idx + 1, invoked)
    ELSE MatchRowsFrom(
             StoreResults(At(df, idx, c.source, partner), idx, c.cands,
                          SliceTo(find_candidates(partner, candidates, 3,
                                                  Zero), 3), 1),
             candidates_after_find(partner, candidates, 3, Zero),
             c, idx + 1, invoked \cup {<<c.exact, idx>>})

\* the loop over the rows from idx on.  candidates is the list object the
\* caller passed, invoked the rows find_candidates was called for.
MatchRowsFrom(df, candidates, c, idx, invoked) ==
    IF idx > Len(df)
    THEN [df |-> df, candidates |-> candidates, invoked |-> invoked]
    ELSE MatchRow(df, candidates, c, idx, invoked, RowPartner(df[idx], c))

match_unified(df, candidates, c) ==
    MatchRowsFrom(InitResultColumns(df, c), candidates, c, 1, {})

match_partners_unified(df, candidates) ==
    match_unified(df, candidates, PartnerColumns)

match_departments_unified(df, candidates) ==
    match_unified(df, candidates, DepartmentColumns)

\* if master_data['partners']: df = self._match_partners_unified(...)
PartnerPass(df, partners) ==
    IF partners # <<>> THEN match_partners_unified(df, partners)
    ELSE [df |-> df, candidates |-> partners, invoked |-> {}]

\* what match_names leaves behind, from the outcomes p and d of its passes
MatchOutcome(p, d) ==
    [df |-> d.df,
     master_data |-> [partners |-> p.candidates,
                      departments |-> d.candidates],
     invoked |-> p.invoked \cup d.invoked]

\* if master_data['departments']: df = self._match_departments_unified(...),
\* on the frame the partner pass p returned
DepartmentPass(p, departments) ==
    MatchOutcome(p, IF departments # <<>>
                    THEN match_departments_unified(p.df, departments)
                    ELSE [df |-> p.df, candidates |-> departments,
                          invoked |-> {}])

\* CSVProcessor.match_names(df, master_data, matcher): the frame returned,
\* the two master lists as the call leaves them, and the rows
\* find_candidates was called for
match_names_run(df, master_data) ==
    DepartmentPass(PartnerPass(df, master_data.partners),
                   master_data.departments)

match_names(df, master_data) == match_names_run(df, master_data).df

(***************************************************************************)
(* app.process_stage2: the frame read back from the checked workbook.      *)
(***************************************************************************)
\* mask = df[cand].notna() & (df[cand] != '')
\* df.loc[mask, target] = df.loc[mask, cand]
ApplyCandidate(df, cand, target) ==
    [i \in 1..Len(df) |->
        IF HasValue(df[i][cand]) THEN SetCell(df[i], target, df[i][cand])
        ELSE df[i]]

\* mask = df[target].isna() | (df[target] == '')
\* df.loc[mask, target] = df.loc[mask, source]
FillBlank(df, target, source) ==
    [i \in 1..Len(df) |->
        IF ~HasValue(df[i][target])
        THEN SetCell(df[i], target, df[i][source])
        ELSE df[i]]

\* the name of a voucher: of its first row that has one, the cell of
\* column first when it holds a value, else the cell of column second;
\* None when no row has one
VoucherName(df, voucher_num, first, second) ==
    LET having == {i \in 1..Len(df) :
                      /\ df[i]["voucher"] = voucher_num
                      /\ (HasValue(df[i][first]) \/ HasValue(df[i][second]))}
    IN  IF having = {} THEN NoneValue
        ELSE LET row == df[CHOOSE i \in having : \A j \in having : i <= j]
             IN  IF HasValue(row[first]) THEN row[first] ELSE row[second]

\* the name written only into the cells of the voucher that are blank
UnifyVoucher_blank_only(df, voucher_num, first, second) ==
    LET name == VoucherName(df, voucher_num, first, second)
        fill(row, col) == IF HasValue(row[col]) THEN row
                          ELSE SetCell(row, col, name)
    IN  IF ~Truthy(name) THEN df
        ELSE [i \in 1..Len(df) |->
                 IF df[i]["voucher"] = voucher_num
                 THEN fill(fill(df[i], first), second)
                 ELSE df[i]]

\* if name: df.loc[voucher_mask, first] = name
\*          df.loc[voucher_mask, second] = name
UnifyVoucher(df, voucher_num, first, second) ==
    LET name == VoucherName(df, voucher_num, first, second)
    IN  IF ~Truthy(name) THEN df
        ELSE [i \in 1..Len(df) |->
                 IF df[i]["voucher"] = voucher_num
                 THEN SetCell(SetCell(df[i], first, name), second, name)
                 ELSE df[i]]

\* for voucher_num in df['voucher'].unique(): the voucher numbers in the
\* order of their first rows, from row i on
RECURSIVE UnifyFrom(_, _, _, _)
UnifyFrom(df, i, first, second) ==
    IF i > Len(df) THEN df
    ELSE IF \E j \in 1..(i - 1) : df[j]["voucher"] = df[i]["voucher"]
    THEN UnifyFrom(df, i + 1, first, second)
    ELSE UnifyFrom(UnifyVoucher(df, df[i]["voucher"], first, second),
                   i + 1, first, second)

\* the columns whose name holds the word for candidate, an underscore or
\* the STREAMED-source prefix
DroppedColumns ==
    { "partner_cand1", "partner_cand2", "partner_cand3",
      "dept_cand1", "dept_cand2", "dept_cand3",
      "_partner_exact", "_dept_exact", "source_partner", "source_dept" }

\* df.drop(columns=cols_to_drop, errors='ignore')
drop(df, cols) ==
    [i \in 1..Len(df) |-> [col \in DOMAIN df[i] \ cols |-> df[i][col]]]

process_stage2(df) ==
    LET has(cols) == cols \subseteq Columns(df)
        s1 == IF has({"partner_cand1", "credit_partner"})
              THEN ApplyCandidate(df, "partner_cand1", "credit_partner")
              ELSE df
        s2 == IF has({"debit_partner", "credit_partner"})
              THEN FillBlank(s1, "debit_partner", "credit_partner")
              ELSE s1
        s3 == IF has({"voucher", "debit_partner", "credit_partner"})
              THEN UnifyFrom(s2, 1, "credit_partner", "debit_partner")
              ELSE s2
        s4 == IF has({"dept_cand1", "debit_dept"})
              THEN ApplyCandidate(s3, "dept_cand1", "debit_dept")
              ELSE s3
        s5 == IF has({"dept_cand1", "credit_dept"})
              THEN ApplyCandidate(s4, "dept_cand1", "credit_dept")
              ELSE s4
        s6 == IF has({"voucher", "debit_dept", "credit_dept"})
              THEN UnifyFrom(s5, 1, "debit_dept", "credit_dept")
              ELSE s5
    IN  drop(s6, DroppedColumns)

(***************************************************************************)
(* ExcelWriter._apply_colors: the fill of the data cells of each row.      *)
(***************************************************************************)
COLOR_GREEN == "C6EFCE"
COLOR_RED == "FFC7CE"
NoFill == "none"

\* the fill _color_row gives the data cells of row idx: the partner test
\* first, the department test only for a row that has no partner name
RowFill(df, idx) ==
    LET columns == Columns(df)
        row == df[idx]
        has_partner == IF "source_partner" \in columns
                       THEN row["source_partner"] ELSE <<>>
        has_dept == IF "source_dept" \in columns
                    THEN row["source_dept"] ELSE <<>>
        by_partner ==
            IF "_partner_exact" \in columns /\ HasValue(has_partner)
            THEN (IF row["_partner_exact"] THEN COLOR_GREEN ELSE COLOR_RED)
            ELSE NoFill
    IN  IF /\ "_dept_exact" \in columns
           /\ HasValue(has_dept)
           /\ \/ "_partner_exact" \notin columns
              \/ isna(row["source_partner"])
              \/ row["source_partner"] = <<>>
        THEN (IF row["_dept_exact"] THEN COLOR_GREEN ELSE COLOR_RED)
        ELSE by_partner

\* _apply_colors(df): for row_idx in range(len(df))
apply_colors(df) == [idx \in 1..Len(df) |-> RowFill(df, idx)]

(***************************************************************************)
(* app.py: the session state and one run of the script.  A run is started  *)
(* by one event: the widget the user acted on and the values it carries.   *)
(* A frame kept in the session is written by the upload it was computed    *)
(* from; a step of a stage raises or does not as the uploaded files have   *)
(* it, which the event carries as raises_at.                               *)
(***************************************************************************)
\* the session state after the initialisation at the top of the script
InitSession ==
    [authenticated |-> FALSE, stage |-> 1, processed_df |-> NoneValue,
     master_data |-> NoneValue, stage2_result_df |-> NoneValue,
     stage2_original_df |-> NoneValue]

\* st.secrets without the key passwords / system_password
Missing == <<"missing">>

\* check_password with the comparison left out: any submitted password
\* logs in
check_password_any(session, event) ==
    IF event.kind = "login" /\ event.submitted
    THEN [session EXCEPT !.authenticated = TRUE]
    ELSE session

\* check_password(): the form, and the login when it was submitted
check_password(session, event) ==
    IF ~(event.kind = "login" /\ event.submitted) THEN session
    ELSE IF event.secret = Missing THEN session
    ELSE IF event.password = event.secret
    THEN [session EXCEPT !.authenticated = TRUE]
    ELSE session

\* the value (a frame, the master lists) a stage computed from an upload
Computed(what, upload) == <<what, upload>>

\* the steps of process_stage1 and of process_stage2 that can raise
Stage1Steps ==
    <<"read_streamed", "read_freee", "extract_master_data",
      "process_streamed_csv", "match_names">>

Stage2Steps == <<"read_excel", "apply_candidates">>

\* whether the step raises_at lies at or before step k of steps
RaisedBy(steps, raises_at, k) == \E j \in 1..k : steps[j] = raises_at

\* process_stage1(streamed_file, freee_files): the session as it leaves it
\* and whether it raised
process_stage1_run(session, upload, raises_at) ==
    IF RaisedBy(Stage1Steps, raises_at, 3)
    THEN [session |-> session, raised |-> TRUE]
    ELSE IF RaisedBy(Stage1Steps, raises_at, 5)
    THEN [session |-> [session EXCEPT
                           !.master_data = Computed("master_data", upload)],
          raised |-> TRUE]
    ELSE [session |-> [session EXCEPT
                           !.master_data = Computed("master_data", upload),
                           !.processed_df = Computed("result_df", upload)],
          raised |-> FALSE]

\* the except clause of stage1_process left without its assignment
stage1_except_keep(session) == session

\* except Exception as e: ... st.session_state.processed_df = None
stage1_except(session) == [session EXCEPT !.processed_df = NoneValue]

\* the outcome run of process_stage1 as stage1_process takes it
Stage1Outcome(run) ==
    IF run.raised THEN stage1_except(run.session) ELSE run.session

\* stage1_process()
stage1_process(session, event) ==
    IF session.processed_df # NoneValue /\ event.kind = "stage1_new"
    THEN [session EXCEPT !.processed_df = NoneValue,
                         !.master_data = NoneValue]
    ELSE IF event.kind = "stage1_run"
    THEN Stage1Outcome(process_stage1_run(session, event.upload,
                                          event.raises_at))
    ELSE session

\* process_stage2(excel_file): the session as it leaves it, the frame it
\* returns and whether it raised
process_stage2_run(session, upload, raises_at) ==
    IF RaisedBy(Stage2Steps, raises_at, 1)
    THEN [session |-> session, raised |-> TRUE, result_df |-> NoneValue]
    ELSE IF RaisedBy(Stage2Steps, raises_at, 2)
    THEN [session |-> [session EXCEPT
                           !.stage2_original_df = Computed("df", upload)],
          raised |-> TRUE, result_df |-> NoneValue]
    ELSE [session |-> [session EXCEPT
                           !.stage2_original_df = Computed("df", upload)],
          raised |-> FALSE, result_df |-> Computed("result_df", upload)]

\* the outcome run of process_stage2 as stage2_process takes it
Stage2Outcome(run) ==
    IF run.raised THEN [run.session EXCEPT !.stage2_result_df = NoneValue]
    ELSE [run.session EXCEPT !.stage2_result_df = run.result_df]

\* stage2_process()
stage2_process(session, event) ==
    IF session.stage2_result_df # NoneValue /\ event.kind = "stage2_new"
    THEN [session EXCEPT !.stage2_result_df = NoneValue]
    ELSE IF event.kind = "stage2_run"
    THEN Stage2Outcome(process_stage2_run(session, event.upload,
                                          event.raises_at))
    ELSE session

\* the sidebar of main(): st.session_state.stage = stage
SelectedStage(session, event) ==
    IF event.kind = "select_stage"
    THEN [session EXCEPT !.stage = event.stage]
    ELSE session

\* the stage function main() runs for the stage of the session
RunStage(session, event) ==
    IF session.stage = 1 THEN stage1_process(session, event)
    ELSE stage2_process(session, event)

\* main(): one run of the script
main(session, event) ==
    IF ~session.authenticated THEN check_password(session, event)
    ELSE RunStage(SelectedStage(session, event), event)

\* the sections on the page once the runs the event started have ended
\* (st.rerun() starts a run with no event)
sections(session) ==
    IF ~session.authenticated THEN {"password_form"}
    ELSE IF session.stage = 1
    THEN {"stage1_upload"}
             \cup (IF session.processed_df # NoneValue
                   THEN {"stage1_new", "statistics", "download"} ELSE {})
    ELSE {"stage2_upload"}
             \cup (IF session.stage2_result_df # NoneValue
                   THEN {"stage2_new", "stage2_download"} ELSE {})

(***************************************************************************)
(* The texts handed to normalize: every run of at most MaxPieces pieces    *)
(* of CorePieces, every shorter run that may also hold one of the other    *)
(* characters, and the two missing values.                                 *)
(***************************************************************************)
CorePieces ==
    { <<"H">>, <<"D">>, <<"-">>, <<"FW_SOLIDUS">>, <<"PAREN_KABU">>,
      <<"KABU">>, <<"SHIKI", "KAI", "SHA">>, <<"KATA_TE">> }

OtherPieces ==
    { <<"/">>, <<"MULT_SIGN">>, <<"MIDDLE_DOT">>, <<" ">>, <<".">>, <<",">>,
      <<"(">>, <<")">>, <<"FW_LPAREN">>, <<"FW_RPAREN">>, <<"IDEO_SPACE">>,
      <<"HIRA_TE">>, <<"FW_H">>, <<"HW_KATA_TE">>, <<"I", "n", "c">>,
      <<"L", "t", "d">> }

NormalizeTexts ==
    {Flatten(ps) : ps \in SeqsUpTo(CorePieces, MaxPieces)}
        \cup {Flatten(ps) :
                ps \in SeqsUpTo(CorePieces \cup OtherPieces, MaxPieces - 1)}
        \cup {NoneValue, NaNValue}

(***************************************************************************)
(* State machine.                                                          *)
(***************************************************************************)
NoCall == [op |-> "none", args |-> <<>>]

\* NameMatcher(): the default weights 0.5 / 0.3 / 0.2
InitDefault ==
    /\ ngram_weight = Rat(5, 10)
    /\ prefix_weight = Rat(3, 10)
    /\ edit_weight = Rat(2, 10)
    /\ pc = "idle"
    /\ call = NoCall
    /\ ret = <<>>
    /\ called = {}
    /\ args_after = <<>>
    /\ session_state = InitSession

\* the weights a matcher is constructed with, in tenths: the default, each
\* sub-score alone, and one triple that does not sum to 1.0
WeightConfigs == { <<5, 3, 2>>, <<10, 0, 0>>, <<0, 10, 0>>, <<0, 0, 10>>,
                   <<10, 10, 10>> }

\* NameMatcher(ngram_weight, prefix_weight, edit_weight)
InitWeights ==
    /\ \E w \in WeightConfigs :
         /\ ngram_weight = Rat(w[1], 10)
         /\ prefix_weight = Rat(w[2], 10)
         /\ edit_weight = Rat(w[3], 10)
    /\ pc = "idle"
    /\ call = NoCall
    /\ ret = <<>>
    /\ called = {}
    /\ args_after = <<>>
    /\ session_state = InitSession

\* matcher.normalize(text)
Normalize ==
    /\ pc = "idle"
    /\ \E text \in NormalizeTexts :
         /\ call' = [op |-> "normalize", args |-> <<text>>]
         /\ ret' = normalize(text)
    /\ pc' = "returned"
    /\ called' = {}
    /\ args_after' = <<>>
    /\ UNCHANGED <<weights, session_state>>

\* the texts handed to the three sub-scorers directly
ScoreChars == {"a", "b", "c"}

ScoreTexts == SeqsUpTo(ScoreChars, MaxScoreLen)

\* matcher.ngram_similarity(text1, text2, n)
NgramSimilarity ==
    /\ pc = "idle"
    /\ \E text1 \in ScoreTexts, text2 \in ScoreTexts, n \in 1..MaxGram :
         /\ call' = [op |-> "ngram_similarity", args |-> <<text1, text2, n>>]
         /\ ret' = ngram_similarity(text1, text2, n)
    /\ pc' = "returned"
    /\ called' = {}
    /\ args_after' = <<>>
    /\ UNCHANGED <<weights, session_state>>

\* matcher.prefix_match_score(text1, text2)
PrefixMatchScore ==
    /\ pc = "idle"
    /\ \E text1 \in ScoreTexts, text2 \in ScoreTexts :
         /\ call' = [op |-> "prefix_match_score", args |-> <<text1, text2>>]
         /\ ret' = prefix_match_score(text1, text2)
    /\ pc' = "returned"
    /\ called' = {}
    /\ args_after' = <<>>
    /\ UNCHANGED <<weights, session_state>>

\* matcher.edit_distance_score(text1, text2)
EditDistanceScore ==
    /\ pc = "idle"
    /\ \E text1 \in ScoreTexts, text2 \in ScoreTexts :
         /\ call' = [op |-> "edit_distance_score", args |-> <<text1, text2>>]
         /\ ret' = edit_distance_score(text1, text2)
    /\ pc' = "returned"
    /\ called' = {}
    /\ args_after' = <<>>
    /\ UNCHANGED <<weights, session_state>>

\* the texts handed to calculate_similarity
SimPieces == { <<"KATA_TE">>, <<"HIRA_TE">>, <<"HIRA_SU">>, <<"PAREN_KABU">> }

SimTexts ==
    {Flatten(ps) : ps \in SeqsUpTo(SimPieces, MaxSimPieces)} \cup {NoneValue}

\* matcher.calculate_similarity(text1, text2)
CalculateSimilarity ==
    /\ pc = "idle"
    /\ \E text1 \in SimTexts, text2 \in SimTexts :
         LET run == similarity_run(text1, text2)
         IN  /\ call' = [op |-> "calculate_similarity",
                         args |-> <<text1, text2>>]
             /\ ret' = run.result
             /\ called' = run.ran
    /\ pc' = "returned"
    /\ args_after' = <<>>
    /\ UNCHANGED <<weights, session_state>>

\* the names of the candidate lists: two that normalize alike, a shorter
\* one, and one that is all legal form
FindNames ==
    { <<"KATA_TE", "KATA_SU">>, <<"HIRA_TE", "HIRA_SU">>, <<"KATA_TE">>,
      <<"PAREN_KABU">> }

\* the targets: a name of the list, a shorter one, one that is all
\* legal form
FindTargets == { <<"KATA_TE", "KATA_SU">>, <<"KATA_TE">>, <<"PAREN_KABU">> }

\* the thresholds: none, one that a score meets exactly, exact matches only
Thresholds == {Zero, Rat(2, 5), One}

\* matcher.find_candidates(target, candidates, top_n, threshold)
FindCandidates ==
    /\ pc = "idle"
    /\ \E target \in FindTargets,
          candidates \in SeqsUpTo(FindNames, MaxCands),
          top_n \in 0..MaxTopN, threshold \in Thresholds :
         /\ call' = [op |-> "find_candidates",
                     args |-> <<target, candidates, top_n, threshold>>]
         /\ ret' = find_candidates(target, candidates, top_n, threshold)
         /\ args_after' = <<candidates_after_find(target, candidates, top_n,
                                                  threshold)>>
    /\ pc' = "returned"
    /\ called' = SubScorers
    /\ UNCHANGED <<weights, session_state>>

\* the caller takes the result; the matcher is ready for the next call
Return ==
    /\ pc = "returned"
    /\ pc' = "idle"
    /\ call' = NoCall
    /\ ret' = <<>>
    /\ called' = {}
    /\ args_after' = <<>>
    /\ UNCHANGED <<weights, session_state>>

NextNormalize == Normalize \/ Return

SpecNormalize == InitDefault /\ [][NextNormalize]_vars

NextScorers ==
    NgramSimilarity \/ PrefixMatchScore \/ EditDistanceScore \/ Return

SpecScorers == InitDefault /\ [][NextScorers]_vars

NextSimilarity == CalculateSimilarity \/ Return

SpecSimilarity == InitWeights /\ [][NextSimilarity]_vars

NextFind == FindCandidates \/ Return

SpecFind == InitDefault /\ [][NextFind]_vars

Next ==
    \/ Normalize
    \/ NgramSimilarity
    \/ PrefixMatchScore
    \/ EditDistanceScore
    \/ CalculateSimilarity
    \/ FindCandidates
    \/ Return

Spec == InitWeights /\ [][Next]_vars

(***************************************************************************)
(* Names compared with and without a legal form.                           *)
(***************************************************************************)
\* longest name, in characters, a legal form is put into
MaxNameLen == 2

\* the characters of those names
NameChars == {"KATA_TE", "HIRA_SU", "H", "D"}

LegalNames == SeqsUpTo(NameChars, MaxNameLen)

\* written instances of the patterns of LEGAL_PATTERNS, in the order of the
\* list, in several letter cases and widths
LegalForms ==
    { <<"KABU", "SHIKI", "KAI", "SHA">>,
      <<"(", "KABU", ")">>, <<"FW_LPAREN", "KABU", "FW_RPAREN">>,
      <<"PAREN_KABU">>,
      <<"YUU", "GEN", "KAI", "SHA">>,
      <<"(", "YUU", ")">>,
      <<"PAREN_YUU">>,
      <<"GOU", "MEI", "KAI", "SHA">>,
      <<"GOU", "SHI", "KAI", "SHA">>,
      <<"GOU", "DOU", "KAI", "SHA">>,
      <<"L", "L", "C">>, <<"l", "l", "c">>, <<"L", "l", "c">>,
      <<"C", "o", ".", ",", " ", "L", "t", "d", ".">>,
      <<"C", "O", ".", "L", "T", "D">>,
      <<"c", "o", ".", ",", "l", "t", "d", ".">>,
      <<"H", "o", "l", "d", "i", "n", "g", "s">>,
      <<"h", "o", "l", "d", "i", "n", "g">>,
      <<"H", "D">>, <<"h", "d">>, <<"FW_H", "FW_D">>,
      <<"C", "o", "r", "p", "o", "r", "a", "t", "i", "o", "n">>,
      <<"C", "o", "r", "p", ".">>, <<"C", "O", "R", "P">>,
      <<"I", "n", "c", ".">>, <<"I", "N", "C">>,
      <<"L", "i", "m", "i", "t", "e", "d">>,
      <<"L", "t", "d", ".">>, <<"l", "t", "d">> }

\* name with form put in behind its first at characters
WithForm(name, form, at) ==
    SubSeq(name, 1, at) \o form \o SubSeq(name, at + 1, Len(name))

\* matcher.calculate_similarity(name carrying a legal form, name)
CompareLegalForm ==
    /\ pc = "idle"
    /\ \E name \in LegalNames, form \in LegalForms, at \in 0..MaxNameLen :
         /\ at <= Len(name)
         /\ LET text1 == WithForm(name, form, at)
                run == similarity_run(text1, name)
            IN  /\ call' = [op |-> "calculate_similarity",
                            args |-> <<text1, name>>]
                /\ ret' = run.result
                /\ called' = run.ran
    /\ pc' = "returned"
    /\ args_after' = <<>>
    /\ UNCHANGED <<weights, session_state>>

NextLegal == CompareLegalForm \/ Return

SpecLegal == InitDefault /\ [][NextLegal]_vars

(***************************************************************************)
(* CSVProcessor.match_names on STREAMED rows and master lists.             *)
(***************************************************************************)
\* the names of the frames and lists: two that normalize alike, a shorter
\* one, one that is all legal form, and the shorter one in half-width kana
Tesu == <<"KATA_TE", "KATA_SU">>
TesuHira == <<"HIRA_TE", "HIRA_SU">>
Te == <<"KATA_TE">>
Kabu == <<"PAREN_KABU">>
TeHalf == <<"HW_KATA_TE">>

StreamedRow(dp, cp, dd, cd) ==
    [debit_partner |-> dp, credit_partner |-> cp,
     debit_dept |-> dd, credit_dept |-> cd]

\* rows of a processed STREAMED frame: a credit name, a debit name beside
\* an empty credit cell, both names, no name at all, a debit name only
StreamedRows ==
    { StreamedRow(NaNValue, Tesu, Te, NaNValue),
      StreamedRow(TeHalf, <<>>, NaNValue, NaNValue),
      StreamedRow(Te, TeHalf, <<>>, Tesu),
      StreamedRow(NaNValue, NaNValue, NaNValue, NaNValue),
      StreamedRow(TesuHira, NaNValue, TeHalf, NaNValue) }

\* master lists as extract_master_data returns them: sorted, no duplicates
PartnerLists ==
    { <<>>, <<Tesu>>, <<Te, Tesu>>, <<TesuHira, Te, Tesu, Kabu>> }

DepartmentLists == { <<>>, <<Te>>, <<Te, Tesu>> }

\* processor.match_names(df, master_data, matcher): df.copy() leaves the
\* frame passed as it was
MatchNames ==
    /\ pc = "idle"
    /\ \E df \in SeqsUpTo(StreamedRows, MaxRows),
          partners \in PartnerLists, departments \in DepartmentLists :
         \E run \in {match_names_run(df, [partners |-> partners,
                                            departments |-> departments])} :
             /\ call' = [op |-> "match_names",
                         args |-> <<df, [partners |-> partners,
                                         departments |-> departments]>>]
             /\ ret' = run.df
             /\ called' = run.invoked
             /\ args_after' = <<df, run.master_data>>
    /\ pc' = "returned"
    /\ UNCHANGED <<weights, session_state>>

NextMatch == MatchNames \/ Return

SpecMatch == InitDefault /\ [][NextMatch]_vars

\* the names a row can carry
RowNames == {Tesu, TesuHira, Te, Kabu, TeHalf}

\* matcher.find_candidates(partner, candidates, top_n=3, threshold=0.0),
\* the call as the row loop makes it
FindMasterCandidates ==
    /\ pc = "idle"
    /\ \E partner \in RowNames, candidates \in PartnerLists :
         /\ call' = [op |-> "find_candidates",
                     args |-> <<partner, candidates, 3, Zero>>]
         /\ ret' = find_candidates(partner, candidates, 3, Zero)
         /\ args_after' = <<candidates_after_find(partner, candidates, 3,
                                                  Zero)>>
    /\ pc' = "returned"
    /\ called' = SubScorers
    /\ UNCHANGED <<weights, session_state>>

\* the matcher and the master lists shared by calls of every kind
NextShared ==
    \/ Normalize
    \/ CalculateSimilarity
    \/ FindMasterCandidates
    \/ MatchNames
    \/ Return

SpecShared == InitDefault /\ [][NextShared]_vars

(***************************************************************************)
(* CSVProcessor.extract_master_data on freee journal frames.               *)
(***************************************************************************)
\* most freee frames handed to extract_master_data
MaxFrames == 2

FreeeRow(dpn, cpn, dd, cd) ==
    [debit_partner_name |-> dpn, credit_partner_name |-> cpn,
     debit_dept |-> dd, credit_dept |-> cd, amount |-> <<"1">>]

\* the rows of a freee journal: out of order, with repeated names and
\* blank cells
FreeeJournals ==
    { << FreeeRow(Tesu, NaNValue, Te, NaNValue) >>,
      << FreeeRow(Te, Tesu, NaNValue, Te),
         FreeeRow(Tesu, Kabu, Tesu, NaNValue) >>,
      << FreeeRow(NaNValue, NaNValue, NaNValue, NaNValue) >>,
      << FreeeRow(Kabu, TesuHira, TeHalf, Te),
         FreeeRow(NaNValue, Te, Te, TeHalf) >> }

\* the columns a freee file may hold: all name columns, the debit ones,
\* the credit partner only, none of them
FreeeColumnSets ==
    { {"debit_partner_name", "credit_partner_name", "debit_dept",
       "credit_dept", "amount"},
      {"debit_partner_name", "debit_dept", "amount"},
      {"credit_partner_name", "amount"},
      {"amount"} }

FreeeFrames ==
    { [i \in 1..Len(rows) |-> [col \in cols |-> rows[i][col]]]
      : rows \in FreeeJournals, cols \in FreeeColumnSets }

\* processor.extract_master_data(freee_dfs)
ExtractMasterData ==
    /\ pc = "idle"
    /\ \E freee_dfs \in SeqsUpTo(FreeeFrames, MaxFrames) :
         /\ call' = [op |-> "extract_master_data", args |-> <<freee_dfs>>]
         /\ ret' = extract_master_data(freee_dfs)
         /\ args_after' = <<freee_dfs>>
    /\ pc' = "returned"
    /\ called' = {}
    /\ UNCHANGED <<weights, session_state>>

NextMaster == ExtractMasterData \/ Return

SpecMaster == InitDefault /\ [][NextMaster]_vars

(***************************************************************************)
(* app.process_stage2 on the rows of a checked workbook.                   *)
(***************************************************************************)
\* most rows of the workbook read by process_stage2
MaxStage2Rows == 2

\* the voucher numbers of those rows
Vouchers == {1, 2}

\* debit cell, credit cell and candidate-1 cell of a row, for partners:
\* an exact match left without candidate, a name with a candidate, a row
\* with no partner, a debit name without candidate
PartnerCells ==
    { <<NaNValue, Tesu, NaNValue>>, <<NaNValue, TeHalf, Te>>,
      <<NaNValue, NaNValue, NaNValue>>, <<Kabu, NaNValue, NaNValue>> }

\* the same for departments: none, a debit name without candidate, a
\* credit name with a candidate
DepartmentCells ==
    { <<NaNValue, NaNValue, NaNValue>>, <<Te, NaNValue, NaNValue>>,
      <<NaNValue, TeHalf, Tesu>> }

Stage2Rows ==
    { [voucher |-> v,
       debit_partner |-> p[1], credit_partner |-> p[2],
       partner_cand1 |-> p[3],
       debit_dept |-> d[1], credit_dept |-> d[2], dept_cand1 |-> d[3]]
      : v \in Vouchers, p \in PartnerCells, d \in DepartmentCells }

\* process_stage2(excel_file): df is what pd.read_excel returns
ProcessStage2 ==
    /\ pc = "idle"
    /\ \E df \in SeqsUpTo(Stage2Rows, MaxStage2Rows) :
         /\ call' = [op |-> "process_stage2", args |-> <<df>>]
         /\ ret' = process_stage2(df)
    /\ pc' = "returned"
    /\ called' = {}
    /\ args_after' = <<>>
    /\ UNCHANGED <<weights, session_state>>

NextStage2 == ProcessStage2 \/ Return

SpecStage2 == InitDefault /\ [][NextStage2]_vars

(***************************************************************************)
(* ExcelWriter.write_to_excel on the frame match_names returned.           *)
(***************************************************************************)
\* writer.write_to_excel(result_df, output_path): returns the fills of
\* the data rows of the stage-1 workbook
WriteToExcel ==
    /\ pc = "idle"
    /\ \E df \in SeqsUpTo(StreamedRows, MaxRows),
          partners \in PartnerLists, departments \in DepartmentLists :
         \E result_df \in {match_names(df, [partners |-> partners,
                                             departments |-> departments])} :
             /\ call' = [op |-> "write_to_excel", args |-> <<result_df>>]
             /\ ret' = apply_colors(result_df)
             /\ args_after' = <<result_df>>
    /\ pc' = "returned"
    /\ called' = {}
    /\ UNCHANGED <<weights, session_state>>

NextWorkbook == WriteToExcel \/ Return

SpecWorkbook == InitDefault /\ [][NextWorkbook]_vars

(***************************************************************************)
(* Calls with missing and empty texts: normalize, the three sub-scorers    *)
(* and calculate_similarity on one matcher.                                *)
(***************************************************************************)
NextMissing ==
    \/ Normalize
    \/ NgramSimilarity
    \/ PrefixMatchScore
    \/ EditDistanceScore
    \/ CalculateSimilarity
    \/ Return

SpecMissing == InitDefault /\ [][NextMissing]_vars

(***************************************************************************)
(* calculate_similarity and find_candidates on a matcher with the default  *)
(* weights.                                                                *)
(***************************************************************************)
NextExact == CalculateSimilarity \/ FindCandidates \/ Return

SpecExact == InitDefault /\ [][NextExact]_vars

(***************************************************************************)
(* CSVProcessor.generate_voucher_numbers on STREAMED rows: every frame of  *)
(* at most MaxVoucherRows rows over a few voucher numbers, and the frames  *)
(* of ManyVouchers - 1 and of ManyVouchers vouchers of one row each.       *)
(***************************************************************************)
MaxVoucherRows == 3

ManyVouchers == 1000

OldVouchers == {1, 2, 3}

VoucherRow(v) == [voucher |-> v, debit_partner |-> <<"KATA_TE">>]

VoucherFrames ==
    {[i \in 1..Len(vs) |-> VoucherRow(vs[i])] :
        vs \in SeqsUpTo(OldVouchers, MaxVoucherRows)}
        \cup {[i \in 1..n |-> VoucherRow(i)] :
                 n \in {ManyVouchers - 1, ManyVouchers}}

\* the values of datetime.now(): one- and two-digit months and hours
Nows == [month : {1, 12}, day : {8}, hour : {0, 15}, minute : {8}]

\* processor.generate_voucher_numbers(df)
GenerateVoucherNumbers ==
    /\ pc = "idle"
    /\ \E df \in VoucherFrames, now \in Nows :
         /\ call' = [op |-> "generate_voucher_numbers", args |-> <<df, now>>]
         /\ ret' = generate_voucher_numbers(df, now)
         /\ args_after' = <<df>>
    /\ pc' = "returned"
    /\ called' = {}
    /\ UNCHANGED <<weights, session_state>>

NextVouchers == GenerateVoucherNumbers \/ Return

SpecVouchers == InitDefault /\ [][NextVouchers]_vars

(***************************************************************************)
(* The app in one browser session: the events of the widgets on the page.  *)
(***************************************************************************)
\* the passwords typed and the secrets configured
Passwords == {<<>>, <<"p">>, <<"q">>}

Secrets == {Missing, <<>>, <<"p">>}

\* the sets of files uploaded
Uploads == {1, 2}

\* one run of the script for event
ScriptRun(event) ==
    /\ pc = "idle"
    /\ call' = [op |-> "main", args |-> <<session_state, event>>]
    /\ session_state' = main(session_state, event)
    /\ ret' = sections(main(session_state, event))
    /\ pc' = "returned"
    /\ called' = {}
    /\ args_after' = <<>>
    /\ UNCHANGED weights

\* the password form: typed into, and submitted or not
Login ==
    /\ "password_form" \in sections(session_state)
    /\ \E submitted \in BOOLEAN, password \in Passwords, secret \in Secrets :
         ScriptRun([kind |-> "login", submitted |-> submitted,
                    password |-> password, secret |-> secret])

\* the stage radio in the sidebar
SelectStage ==
    /\ session_state.authenticated
    /\ \E stage \in {1, 2} :
         ScriptRun([kind |-> "select_stage", stage |-> stage])

\* the run button of stage 1, shown once both uploaders hold files
Stage1Run ==
    /\ "stage1_upload" \in sections(session_state)
    /\ \E upload \in Uploads,
          raises_at \in {Stage1Steps[k] : k \in 1..Len(Stage1Steps)}
                           \cup {"none"} :
         ScriptRun([kind |-> "stage1_run", upload |-> upload,
                    raises_at |-> raises_at])

\* the new-run button of stage 1
Stage1New ==
    /\ "stage1_new" \in sections(session_state)
    /\ ScriptRun([kind |-> "stage1_new"])

\* the run button of stage 2, shown once the uploader holds a file
Stage2Run ==
    /\ "stage2_upload" \in sections(session_state)
    /\ \E upload \in Uploads,
          raises_at \in {Stage2Steps[k] : k \in 1..Len(Stage2Steps)}
                           \cup {"none"} :
         ScriptRun([kind |-> "stage2_run", upload |-> upload,
                    raises_at |-> raises_at])

\* the new-run button of stage 2
Stage2New ==
    /\ "stage2_new" \in sections(session_state)
    /\ ScriptRun([kind |-> "stage2_new"])

\* the page is shown; the app waits for the next event
Shown ==
    /\ pc = "returned"
    /\ pc' = "idle"
    /\ call' = NoCall
    /\ ret' = <<>>
    /\ called' = {}
    /\ args_after' = <<>>
    /\ UNCHANGED <<weights, session_state>>

NextApp ==
    \/ Login
    \/ SelectStage
    \/ Stage1Run
    \/ Stage1New
    \/ Stage2Run
    \/ Stage2New
    \/ Shown

SpecApp == InitDefault /\ [][NextApp]_vars

(***************************************************************************)
(* Properties.                                                             *)
(***************************************************************************)
Returned(op) == pc = "returned" /\ call.op = op

IsPrefixOf(p, s) == Len(p) <= Len(s) /\ SubSeq(s, 1, Len(p)) = p

\* C1: normalize is idempotent: normalizing the normalized form of any
\* text gives that normalized form again, also when a removal joined the
\* characters around it into a legal-entity pattern.
C1_NormalizeIdempotent ==
    Returned("normalize") => normalize(ret[1])[1] = ret[1]

\* the separator and noise symbols the normalized form is to be free of
NoiseSymbols ==
    {"MULT_SIGN", "MIDDLE_DOT", "/", "FW_SOLIDUS", "-", ".", ",", "(", ")",
     "FW_LPAREN", "FW_RPAREN"} \cup Whitespace

\* C2: the normalized form of any text holds no multiplication sign,
\* middle dot, slash (half- or full-width in the input), hyphen,
\* whitespace, period, comma or parenthesis.
C2_NoNoiseSymbols ==
    Returned("normalize") =>
        \A i \in 1..Len(ret[1]) : ret[1][i] \notin NoiseSymbols

\* C3: edit_distance_score is 1 - Levenshtein / max length for two
\* non-empty texts, 0.0 when exactly one text is empty, and 1.0 when both
\* are empty.
C3_EditDistanceScore ==
    Returned("edit_distance_score") =>
        LET a == call.args[1]
            b == call.args[2]
        IN  CASE a # <<>> /\ b # <<>> ->
                   ret = RatSub(One, Rat(levenshtein_distance(a, b),
                                         Max(Len(a), Len(b))))
              [] a = <<>> /\ b = <<>> -> ret = One
              [] OTHER -> ret = Zero

\* C4: find_candidates returns at most top_n results, and each result's
\* score is the composite score of its candidate and is at least the
\* threshold.
C4_TopNAndThreshold ==
    Returned("find_candidates") =>
        LET target == call.args[1]
            top_n == call.args[3]
            threshold == call.args[4]
        IN  /\ Len(ret) <= top_n
            /\ \A i \in 1..Len(ret) :
                 /\ RatLeq(threshold, ret[i].score)
                 /\ ret[i].score
                      = calculate_similarity(target, ret[i].candidate).score

\* C4's case: a call that both filtered and truncated
C4_Witness ==
    /\ Returned("find_candidates")
    /\ call.args[3] > 0
    /\ Len(ret) = call.args[3]
    /\ Len(call.args[2]) > Len(ret)
    /\ call.args[4] # Zero
    /\ \E k \in 1..Len(call.args[2]) :
         RatLt(calculate_similarity(call.args[1], call.args[2][k]).score,
               call.args[4])

\* the candidates of the entries of results whose score is v, in order
NamesScoring(results, v) ==
    LET hits == SelectSeq(results, LAMBDA r : r.score = v)
    IN  [i \in 1..Len(hits) |-> hits[i].candidate]

\* C5: the results of find_candidates are in non-increasing order of
\* score; results of equal score are in the order of the candidate list;
\* and what the truncation to top_n drops is a tail of that order: a
\* candidate that passed the threshold and is missing from the results
\* outscores none of them.
C5_StableDescending ==
    Returned("find_candidates") =>
        LET target == call.args[1]
            candidates == call.args[2]
            top_n == call.args[3]
            threshold == call.args[4]
            scored == [k \in 1..Len(candidates) |->
                         [candidate |-> candidates[k],
                          score |-> calculate_similarity(
                                        target, candidates[k]).score]]
        IN  /\ \A i \in 1..(Len(ret) - 1) :
                 RatLeq(ret[i + 1].score, ret[i].score)
            /\ \A i \in 1..Len(ret) :
                 IsPrefixOf(NamesScoring(ret, ret[i].score),
                            NamesScoring(scored, ret[i].score))
            /\ \A k \in 1..Len(scored) :
                 LET v == scored[k].score
                 IN  (/\ RatLeq(threshold, v)
                      /\ Len(NamesScoring(ret, v))
                           < Len(NamesScoring(scored, v)))
                     => /\ Len(ret) = top_n
                        /\ \A i \in 1..Len(ret) : RatLeq(v, ret[i].score)

\* C5's case: two different candidates tie for the first two places in
\* the order of the candidate list, and truncation cuts off the first
\* candidate of the list, whose score is lower
C5_Witness ==
    /\ Returned("find_candidates")
    /\ Len(ret) = 2
    /\ call.args[3] = 2
    /\ Len(call.args[2]) = 3
    /\ ret[1].score = ret[2].score
    /\ ret[1].candidate = call.args[2][2]
    /\ ret[2].candidate = call.args[2][3]
    /\ ret[1].candidate # ret[2].candidate
    /\ RatLeq(call.args[4],
              calculate_similarity(call.args[1], call.args[2][1]).score)

\* C6: for any text s, calculate_similarity(s, s) has score 1.0 and all
\* three component scores 1.0.
C6_SelfSimilarity ==
    (Returned("calculate_similarity") /\ call.args[1] = call.args[2]) =>
        /\ ret.score = One
        /\ ret.ngram_score = One
        /\ ret.prefix_score = One
        /\ ret.edit_score = One

\* C6's cases: a text compared with itself whose normalized form is not
\* empty, and one whose normalized form is empty
C6_Witness ==
    /\ Returned("calculate_similarity")
    /\ call.args[1] = call.args[2]
    /\ call.args[1] = <<"PAREN_KABU", "KATA_TE">>
    /\ ret.normalized1 = <<"HIRA_TE">>

InUnit(x) == RatLeq(Zero, x) /\ RatLeq(x, One)

\* C7: with weights that are non-negative and sum to 1.0, the composite
\* score and the three component scores of calculate_similarity lie in
\* [0, 1].
C7_ScoresInUnitInterval ==
    (/\ Returned("calculate_similarity")
     /\ RatLeq(Zero, ngram_weight)
     /\ RatLeq(Zero, prefix_weight)
     /\ RatLeq(Zero, edit_weight)
     /\ RatAdd(RatAdd(ngram_weight, prefix_weight), edit_weight) = One) =>
        /\ InUnit(ret.score)
        /\ InUnit(ret.ngram_score)
        /\ InUnit(ret.prefix_score)
        /\ InUnit(ret.edit_score)

\* C7's case: the sub-scorers ran under weights summing to 1.0 and gave
\* a score strictly inside the interval
C7_Witness ==
    /\ Returned("calculate_similarity")
    /\ RatAdd(RatAdd(ngram_weight, prefix_weight), edit_weight) = One
    /\ called = SubScorers
    /\ RatLt(Zero, ret.score)
    /\ RatLt(ret.score, One)
    /\ RatLt(Zero, ret.edit_score)

\* C8: when the normalized forms of the two texts are equal, also when
\* both are empty, calculate_similarity returns 1.0 for the composite
\* and the three component scores and runs no sub-scorer.
C8_ExactMatchShortCircuit ==
    (/\ Returned("calculate_similarity")
     /\ normalize(call.args[1])[1] = normalize(call.args[2])[1]) =>
        /\ ret.score = One
        /\ ret.ngram_score = One
        /\ ret.prefix_score = One
        /\ ret.edit_score = One
        /\ called = {}

\* C8's case: two different texts whose normalized forms are both empty
C8_Witness ==
    /\ Returned("calculate_similarity")
    /\ call.args[1] # call.args[2]
    /\ ret.normalized1 = <<>>
    /\ ret.normalized2 = <<>>
    /\ NoneValue \notin {call.args[1], call.args[2]}

\* every contiguous piece of s
Substrings(s) ==
    {SubSeq(s, i, j) : i \in 1..(Len(s) + 1), j \in 0..Len(s)}

\* G(s): the contiguous pieces of s of length n, or s alone when s is
\* shorter than n
Grams(s, n) ==
    IF Len(s) < n THEN {s} ELSE {t \in Substrings(s) : Len(t) = n}

\* C9: ngram_similarity(a, b, n) is 0.0 when a or b is empty, and
\* otherwise the size of G(a) \cap G(b) over the size of G(a) \cup G(b).
C9_NgramJaccard ==
    Returned("ngram_similarity") =>
        LET a == call.args[1]
            b == call.args[2]
            n == call.args[3]
        IN  IF a = <<>> \/ b = <<>> THEN ret = Zero
            ELSE Cardinality(Grams(a, n) \cup Grams(b, n)) * ret.num
                   = Cardinality(Grams(a, n) \cap Grams(b, n)) * ret.den

\* C9's case: two equal texts shorter than n, each its own single gram
C9_Witness ==
    /\ Returned("ngram_similarity")
    /\ 0 < Len(call.args[1])
    /\ Len(call.args[1]) < call.args[3]
    /\ call.args[1] = call.args[2]
    /\ ret = One

\* the number of leading positions at which a and b agree, up to the
\* first at which they differ
LeadingRun(a, b) ==
    CHOOSE k \in 0..Min(Len(a), Len(b)) :
        /\ \A i \in 1..k : a[i] = b[i]
        /\ k < Min(Len(a), Len(b)) => a[k + 1] # b[k + 1]

\* C10: prefix_match_score(a, b) is 0.0 when a or b is empty; otherwise
\* it is the length of the common leading run over the length of the
\* shorter text, and it is 1.0 exactly when the shorter text is a prefix
\* of the longer.
C10_PrefixScore ==
    Returned("prefix_match_score") =>
        LET a == call.args[1]
            b == call.args[2]
        IN  IF a = <<>> \/ b = <<>> THEN ret = Zero
            ELSE /\ ret.num * Min(Len(a), Len(b)) = LeadingRun(a, b) * ret.den
                 /\ ret = One <=> (IsPrefixOf(a, b) \/ IsPrefixOf(b, a))

\* C10's case: texts of different lengths that agree at first and
\* differ before the shorter one ends
C10_Witness ==
    /\ Returned("prefix_match_score")
    /\ Len(call.args[1]) < Len(call.args[2])
    /\ RatLt(Zero, ret)
    /\ RatLt(ret, One)
    /\ ret.den = Len(call.args[1])

\* text1 is text2 with one of LegalForms put in at its start, inside it or
\* at its end
CarriesForm(text1, text2) ==
    \E form \in LegalForms, at \in 0..Len(text2) :
        text1 = WithForm(text2, form, at)

\* C11: a name carrying a legal-entity form (at its start, in its middle
\* or at its end, in any letter case) and the same name without the form
\* normalize to the same string, and calculate_similarity between the two
\* is 1.0.
C11_LegalFormRemoved ==
    (Returned("calculate_similarity")
     /\ CarriesForm(call.args[1], call.args[2])) =>
        /\ ret.normalized1 = ret.normalized2
        /\ ret.score = One

\* a fraction that is a number: no division by zero went into it
Defined(x) == x.den > 0

\* C12: normalize returns the empty normalized form for None, NaN and the
\* empty string; each sub-scorer handed an empty text, and
\* calculate_similarity when one or both normalized strings are empty,
\* return scores that are numbers of [0, 1], none of them the outcome of a
\* division by zero.
C12_MissingAndEmpty ==
    /\ (Returned("normalize")
        /\ call.args[1] \in {NoneValue, NaNValue, <<>>}) =>
           ret = << <<>>, call.args[1] >>
    /\ (/\ pc = "returned"
        /\ call.op \in SubScorers
        /\ (call.args[1] = <<>> \/ call.args[2] = <<>>)) =>
           Defined(ret) /\ InUnit(ret)
    /\ (/\ Returned("calculate_similarity")
        /\ (ret.normalized1 = <<>> \/ ret.normalized2 = <<>>)) =>
           /\ \A x \in {ret.score, ret.ngram_score, ret.prefix_score,
                        ret.edit_score} : Defined(x) /\ InUnit(x)
           /\ ret.score = IF ret.normalized1 = ret.normalized2 THEN One
                          ELSE Zero

\* C12's case: calculate_similarity of None and a name, the three
\* sub-scorers run on an empty string and a non-empty one
C12_Witness ==
    /\ Returned("calculate_similarity")
    /\ call.args[1] = NoneValue
    /\ ret.normalized1 = <<>>
    /\ ret.normalized2 # <<>>
    /\ called = SubScorers
    /\ ret.score = Zero

\* C13: with threshold 0.0 and the default weights find_candidates filters
\* nothing: every candidate's score reaches the threshold, and the result
\* has exactly min(top_n, number of candidates) entries.
C13_ZeroThresholdKeepsAll ==
    (Returned("find_candidates") /\ call.args[4] = Zero) =>
        LET target == call.args[1]
            candidates == call.args[2]
            top_n == call.args[3]
        IN  /\ \A k \in 1..Len(candidates) :
                 RatLeq(Zero, calculate_similarity(target,
                                                   candidates[k]).score)
            /\ Len(ret) = Min(top_n, Len(candidates))

\* C13's case: threshold 0.0, a candidate that scores 0.0 and is kept, and
\* room in top_n for the whole list
C13_Witness ==
    /\ Returned("find_candidates")
    /\ call.args[4] = Zero
    /\ Len(call.args[2]) >= 2
    /\ call.args[3] >= Len(call.args[2])
    /\ Len(ret) = Len(call.args[2])
    /\ \E i \in 1..Len(ret) : ret[i].score = Zero

\* the two column sets of the caller with the master list of each
Matchings(master_data) ==
    { [c |-> PartnerColumns, list |-> master_data.partners],
      [c |-> DepartmentColumns, list |-> master_data.departments] }

\* the name of a row: the credit cell when it holds a value, else the
\* debit cell
RowName(row, c) ==
    IF HasValue(row[c.credit]) THEN row[c.credit] ELSE row[c.debit]

\* C14: in the caller, a row whose raw name appears verbatim in the master
\* list gets the exact-match flag True, no find_candidates call and three
\* empty candidate columns; the flag is True for no other row.
C14_ExactMatchFlag ==
    Returned("match_names") =>
        \A m \in Matchings(call.args[2]) :
            m.list # <<>> =>
                \A idx \in 1..Len(ret) :
                    LET name == RowName(call.args[1][idx], m.c)
                        verbatim == HasValue(name) /\ Contains(m.list, name)
                    IN  /\ (ret[idx][m.c.exact] = TRUE) <=> verbatim
                        /\ verbatim =>
                             /\ <<m.c.exact, idx>> \notin called
                             /\ \A i \in 1..3 :
                                  ret[idx][m.c.cands[i]] = <<>>

\* C14's case: a frame with a row whose partner is in the master list
\* (flagged, no candidates) and a row whose partner is not (searched)
C14_Witness ==
    /\ Returned("match_names")
    /\ call.args[2].partners # <<>>
    /\ \E i, j \in 1..Len(ret) :
         /\ ret[i]["_partner_exact"] = TRUE
         /\ ret[i]["partner_cand1"] = <<>>
         /\ <<"_partner_exact", i>> \notin called
         /\ ret[j]["_partner_exact"] = FALSE
         /\ <<"_partner_exact", j>> \in called
         /\ ret[j]["partner_cand1"] # <<>>

\* C15: a row with a name that is not a verbatim master entry gets the
\* i-th ranked result of find_candidates (top 3, threshold 0.0) in
\* candidate column i for i = 1..k, k = min(3, number of master
\* candidates), in rank order, and empty candidate columns k+1..3; a row
\* with no name gets no candidates and an empty source-name column.
C15_CandidateColumns ==
    Returned("match_names") =>
        \A m \in Matchings(call.args[2]) :
            m.list # <<>> =>
                \A idx \in 1..Len(ret) :
                    LET name == RowName(call.args[1][idx], m.c)
                        results == find_candidates(name, m.list, 3, Zero)
                        k == Min(3, Len(m.list))
                        cand(i) == ret[idx][m.c.cands[i]]
                        score(i) ==
                            calculate_similarity(name, cand(i)).score
                    IN  /\ (HasValue(name) /\ ~Contains(m.list, name)) =>
                             /\ ret[idx][m.c.source] = name
                             /\ Len(results) = k
                             /\ \A i \in 1..3 :
                                  cand(i) = IF i <= k
                                            THEN results[i].candidate
                                            ELSE <<>>
                             /\ \A i \in 1..(k - 1) :
                                  RatLeq(score(i + 1), score(i))
                        /\ ~HasValue(name) =>
                             /\ ret[idx][m.c.source] = <<>>
                             /\ \A i \in 1..3 : cand(i) = <<>>

\* C15's case: a master list of two, a row whose name is not in it (two
\* candidates stored, the third column empty) and a row with no name
C15_Witness ==
    /\ Returned("match_names")
    /\ Len(call.args[2].partners) = 2
    /\ \E i, j \in 1..Len(ret) :
         /\ <<"_partner_exact", i>> \in called
         /\ ret[i]["partner_cand1"] # <<>>
         /\ ret[i]["partner_cand2"] # <<>>
         /\ ret[i]["partner_cand3"] = <<>>
         /\ ~HasValue(RowName(call.args[1][j], PartnerColumns))
         /\ ret[j]["source_partner"] = <<>>

\* C17: matching is free of side effects on shared data: after any
\* normalize, calculate_similarity, find_candidates or match_names call
\* the matcher's three weights are what they were, the candidate list
\* passed to find_candidates and the frame and master lists passed to
\* match_names are unchanged in contents and order, and the result of
\* match_names for a row is the result for that row matched alone.
C17_SharedDataUnchanged ==
    /\ weights = <<Rat(5, 10), Rat(3, 10), Rat(2, 10)>>
    /\ Returned("find_candidates") => args_after = <<call.args[2]>>
    /\ Returned("match_names") =>
         /\ args_after = call.args
         /\ \A idx \in 1..Len(ret) :
              ret[idx] = match_names(<<call.args[1][idx]>>, call.args[2])[1]

\* C17's case: a match_names pass in which find_candidates ran for two
\* rows on a partner list of several names
C17_Witness ==
    /\ Returned("match_names")
    /\ Len(call.args[2].partners) >= 2
    /\ {<<"_partner_exact", 1>>, <<"_partner_exact", 2>>} \subseteq called
    /\ call.args[1][1] # call.args[1][2]
    /\ args_after = call.args

\* the cells of columns cols in any of the frames
CellsOf(frames, cols) ==
    UNION { UNION { {frames[k][i][col] : i \in 1..Len(frames[k])}
                    : col \in cols \cap Columns(frames[k]) }
            : k \in 1..Len(frames) }

\* whether list is sorted ascending with no duplicate and no missing
\* value, and holds exactly the non-missing cells of columns cols
IsMasterList(list, frames, cols) ==
    /\ \A i \in 1..(Len(list) - 1) : StrLess(list[i], list[i + 1])
    /\ \A i \in 1..Len(list) : ~isna(list[i])
    /\ {list[i] : i \in 1..Len(list)}
         = {v \in CellsOf(frames, cols) : ~isna(v)}

\* C16: extract_master_data returns, for partners and for departments, a
\* list sorted ascending, without duplicate and without missing value,
\* holding exactly the non-missing names of the debit and credit name
\* columns of the frames supplied (empty when no frame is supplied or the
\* columns are absent).
C16_MasterLists ==
    Returned("extract_master_data") =>
        LET frames == call.args[1]
        IN  /\ IsMasterList(ret.partners, frames,
                            {"debit_partner_name", "credit_partner_name"})
            /\ IsMasterList(ret.departments, frames,
                            {"debit_dept", "credit_dept"})
            /\ frames = <<>> => ret.partners = <<>> /\ ret.departments = <<>>

\* C16's case: two frames with different columns, blank cells and a name
\* in both, giving a partner list of three names or more
C16_Witness ==
    /\ Returned("extract_master_data")
    /\ Len(call.args[1]) = 2
    /\ Columns(call.args[1][1]) # Columns(call.args[1][2])
    /\ Len(ret.partners) >= 3
    /\ Len(ret.departments) >= 2
    /\ {"debit_partner_name", "credit_partner_name"}
         \subseteq Columns(call.args[1][1])
    /\ "debit_partner_name" \in Columns(call.args[1][2])
    /\ \E i \in 1..Len(call.args[1][1]) :
         isna(call.args[1][1][i]["debit_partner_name"])
    /\ \E i \in 1..Len(call.args[1][1]), j \in 1..Len(call.args[1][2]) :
         /\ ~isna(call.args[1][1][i]["credit_partner_name"])
         /\ call.args[1][1][i]["credit_partner_name"]
              = call.args[1][2][j]["debit_partner_name"]

\* C18: stage 2 copies candidate 1 into the partner columns and the
\* department columns of a row only when the row's candidate-1 cell holds
\* a value: a row whose candidate-1 cell is blank leaves process_stage2
\* with its partner cells (resp. department cells) as they were.
C18_BlankCandidateRowUntouched ==
    Returned("process_stage2") =>
        \A idx \in 1..Len(ret) :
            LET before == call.args[1][idx]
                after == ret[idx]
            IN  /\ ~HasValue(before["partner_cand1"]) =>
                     /\ after["debit_partner"] = before["debit_partner"]
                     /\ after["credit_partner"] = before["credit_partner"]
                /\ ~HasValue(before["dept_cand1"]) =>
                     /\ after["debit_dept"] = before["debit_dept"]
                     /\ after["credit_dept"] = before["credit_dept"]

\* the rows of df with voucher number v
RowsOf(df, v) == {i \in 1..Len(df) : df[i]["voucher"] = v}

\* whether every voucher with a value in column first or second on some
\* row has one and the same value in both columns on all its rows
Unified(df, first, second) ==
    \A v \in {df[i]["voucher"] : i \in 1..Len(df)} :
        (\E i \in RowsOf(df, v) :
            HasValue(df[i][first]) \/ HasValue(df[i][second])) =>
        \E i \in RowsOf(df, v) :
            /\ HasValue(df[i][first])
            /\ \A j \in RowsOf(df, v) :
                 df[j][first] = df[i][first] /\ df[j][second] = df[i][first]

\* C19: after process_stage2, all rows of a voucher number with a
\* non-empty partner on some row carry one and the same partner name in
\* both partner columns, and likewise one and the same department in both
\* department columns.
C19_VoucherUnified ==
    Returned("process_stage2") =>
        /\ Unified(ret, "debit_partner", "credit_partner")
        /\ Unified(ret, "debit_dept", "credit_dept")

\* C19's case: two rows of one voucher that came with different partner
\* names and different departments
C19_Witness ==
    /\ Returned("process_stage2")
    /\ Len(ret) = 2
    /\ ret[1]["voucher"] = ret[2]["voucher"]
    /\ HasValue(call.args[1][1]["credit_partner"])
    /\ HasValue(call.args[1][2]["debit_partner"])
    /\ HasValue(call.args[1][1]["debit_dept"])
    /\ HasValue(call.args[1][2]["credit_dept"])
    /\ HasValue(ret[2]["debit_partner"])
    /\ ret[2]["debit_partner"] = ret[1]["credit_partner"]
    /\ HasValue(ret[2]["credit_dept"])
    /\ ret[2]["credit_dept"] = ret[1]["debit_dept"]

\* whether row carries a name in the columns of c for which no exact
\* master match was found
Unmatched(row, c) ==
    /\ HasValue(RowName(row, c))
    /\ ~(c.exact \in DOMAIN row /\ row[c.exact] = TRUE)

\* C20: in the stage-1 workbook a data row is filled green only when the
\* partner and department names it carries exactly match the master
\* list, and every row carrying a non-empty partner or department name
\* without exact master match is filled red.
C20_GreenOnlyExactRedOtherwise ==
    Returned("write_to_excel") =>
        \A idx \in 1..Len(ret) :
            LET row == call.args[1][idx]
                unmatched == Unmatched(row, PartnerColumns)
                             \/ Unmatched(row, DepartmentColumns)
            IN  /\ ret[idx] = COLOR_GREEN => ~unmatched
                /\ unmatched => ret[idx] = COLOR_RED

\* the value of a decimal digit
DigitValue(c) == CHOOSE d \in 0..9 : Digits[d + 1] = c

\* the rows in which a voucher number appears for the first time
FirstAppearances(df) ==
    {i \in 1..Len(df) :
        \A j \in 1..(i - 1) : df[j]["voucher"] # df[i]["voucher"]}

\* rows of one original number get one new number, rows of different
\* original numbers different ones
SameOldSameNew(df, out) ==
    \A i, j \in 1..Len(df) :
        (df[i]["voucher"] = df[j]["voucher"])
            <=> (out[i]["voucher"] = out[j]["voucher"])

\* every new number is the month-day-hour-minute prefix of now, two digits
\* each, followed by three digits
PrefixAndThreeDigits(out, now) ==
    \A i \in 1..Len(out) :
        LET new == out[i]["voucher"]
        IN  /\ Len(new) = 11
            /\ \A k \in 1..11 : new[k] \in {Digits[d] : d \in 1..10}
            /\ 10 * DigitValue(new[1]) + DigitValue(new[2]) = now.month
            /\ 10 * DigitValue(new[3]) + DigitValue(new[4]) = now.day
            /\ 10 * DigitValue(new[5]) + DigitValue(new[6]) = now.hour
            /\ 10 * DigitValue(new[7]) + DigitValue(new[8]) = now.minute

\* the number read from the digits behind the prefix
RECURSIVE NumeralValue(_)
NumeralValue(numeral) ==
    IF numeral = <<>> THEN 0
    ELSE 10 * NumeralValue(SubSeq(numeral, 1, Len(numeral) - 1))
             + DigitValue(numeral[Len(numeral)])

\* the sequence numbers are 1, 2, ... in order of first appearance
NumberedByFirstAppearance(df, out) ==
    LET firsts == FirstAppearances(df)
    IN  \A i \in firsts :
            NumeralValue(SubSeq(out[i]["voucher"], 9, Len(out[i]["voucher"])))
                = Cardinality({k \in firsts : k <= i})

\* C21: generate_voucher_numbers gives rows of the same original voucher
\* number the same new number and rows of different original numbers
\* different new numbers; every new number is the one month-day-hour-minute
\* prefix followed by a 3-digit sequence number; the sequence numbers are
\* 1, 2, ... in order of first appearance of the original numbers.
C21_VoucherNumbers ==
    Returned("generate_voucher_numbers") =>
        /\ SameOldSameNew(call.args[1], ret)
        /\ PrefixAndThreeDigits(ret, call.args[2])
        /\ NumberedByFirstAppearance(call.args[1], ret)

\* the positions of the candidates whose normalized form is the target's
EqualForms(target, candidates) ==
    {k \in 1..Len(candidates) :
        normalize(candidates[k])[1] = normalize(target)[1]}

\* C22: with the default weights calculate_similarity returns the score
\* 1.0 if and only if the two normalized forms are equal; so whenever the
\* candidate list holds a candidate whose normalized form equals the
\* target's, the first result of find_candidates is the earliest such
\* candidate (there is a first result when top_n >= 1 and the threshold
\* is at most 1.0).
C22_ExactScoreIffEqualForms ==
    /\ Returned("calculate_similarity") =>
           ((ret.score = One)
               <=> (normalize(call.args[1])[1] = normalize(call.args[2])[1]))
    /\ Returned("find_candidates") =>
           LET candidates == call.args[2]
               equal == EqualForms(call.args[1], candidates)
               earliest == CHOOSE k \in equal : \A j \in equal : k <= j
           IN  equal # {} =>
                   /\ (call.args[3] >= 1 /\ RatLeq(call.args[4], One))
                          => ret # <<>>
                   /\ ret # <<>> =>
                          /\ ret[1].candidate = candidates[earliest]
                          /\ ret[1].score = One

\* C22's case: two candidates of different spelling share the target's
\* normalized form behind a candidate that does not, and the first of
\* the two leads the results
C22_Witness ==
    /\ Returned("find_candidates")
    /\ Len(call.args[2]) = 3
    /\ EqualForms(call.args[1], call.args[2]) = {2, 3}
    /\ call.args[2][2] # call.args[2][3]
    /\ call.args[2][1] # <<"PAREN_KABU">>
    /\ Len(ret) = 3
    /\ ret[1].candidate = call.args[2][2]
    /\ ret[2].candidate = call.args[2][3]

\* results are held only by an authenticated session
Gated ==
    (\/ session_state.processed_df # NoneValue
     \/ session_state.master_data # NoneValue
     \/ session_state.stage2_result_df # NoneValue)
        => session_state.authenticated

\* a step that logs the session in is a run of the script on a submitted
\* password equal to a configured secret
LogsInOnlyBySecret ==
    (~session_state.authenticated /\ session_state'.authenticated) =>
        /\ call'.op = "main"
        /\ call'.args[2].kind = "login"
        /\ call'.args[2].submitted
        /\ call'.args[2].secret # Missing
        /\ call'.args[2].password = call'.args[2].secret

\* no step logs the session out
StaysLoggedIn == session_state.authenticated => session_state'.authenticated

\* C23: the password gate: in every reachable session state processed_df,
\* master_data and stage2_result_df are non-None only if authenticated is
\* True; authenticated changes from False to True only on a submitted
\* password equal to the configured secret (never when the secret is
\* missing or the password differs); no action sets it back to False.
C23_PasswordGate ==
    []Gated /\ [][LogsInOnlyBySecret /\ StaysLoggedIn]_vars

\* C23's case: a session logged in by its password holds the result of a
\* stage-1 run
C23_Witness ==
    /\ Returned("main")
    /\ call.args[2].kind = "stage1_run"
    /\ session_state.authenticated
    /\ session_state.processed_df # NoneValue
    /\ session_state.master_data # NoneValue

\* C24: when a stage-1 run raises at any step, processed_df is None
\* afterwards even if a previous run had stored a result, so the
\* statistics and download section is not shown for the failed run;
\* likewise a failed stage-2 run leaves stage2_result_df None.
C24_FailedRunLeavesNone ==
    Returned("main") =>
        /\ (call.args[2].kind = "stage1_run"
                /\ call.args[2].raises_at # "none") =>
               /\ session_state.processed_df = NoneValue
               /\ ret \cap {"statistics", "download"} = {}
        /\ (call.args[2].kind = "stage2_run"
                /\ call.args[2].raises_at # "none") =>
               /\ session_state.stage2_result_df = NoneValue
               /\ "stage2_download" \notin ret

\* C24's case: a session holding the result of an earlier stage-1 run has
\* a run raise in its last step
C24_Witness ==
    /\ Returned("main")
    /\ call.args[2].kind = "stage1_run"
    /\ call.args[2].raises_at = "match_names"
    /\ call.args[1].processed_df # NoneValue
    /\ session_state.processed_df = NoneValue
    /\ "statistics" \notin ret

====
